---- MODULE Spec2Model ----
(***************************************************************************)
(* LinguaQuest progression engine: the Express route handlers of           *)
(* registerRoutes (lesson completion, quest claim, daily quiz) and the     *)
(* DatabaseStorage methods they call.  Every `await` of a handler is one   *)
(* step of the request, so the steps of different requests interleave.    *)
(***************************************************************************)
EXTENDS Integers, Sequences, FiniteSets, TLC

\* Number of request slots (requests issued in one run).
MaxReqs == 3

\* Largest question count drawn for the scoring specification.
MaxQuestions == 40

\* JavaScript undefined (a missing row, an absent body field).
Undefined == [undefined |-> TRUE]

\* NULL in a text column (falsy, like the empty string).
NullText == ""

\* The score Math.round yields for 0 / 0; it is not a number, compares false
\* with every threshold and is encoded below every percentage.
NaN == 0 - 1

VARIABLES
    users,              \* users table: id -> [xp, skillLevel]
    userQuests,         \* user_quests table, rows in insertion order
    lessonProgress,     \* lesson_progress table
    dailyQuizzes,       \* daily_quizzes table
    dailyQuizProgress,  \* daily_quiz_progress table
    req,                \* the requests: arguments, position, locals, response
    page                \* the daily-quiz page of one browser: its React state

vars == <<users, userQuests, lessonProgress, dailyQuizzes, dailyQuizProgress, req, page>>

Reqs == 1..MaxReqs

----------------------------------------------------------------------------
(* Double-precision arithmetic of Math.round((correctCount / n) * 100).   *)
(* A positive double is [m |-> the 53-bit significand as five limbs, most  *)
(* significant first: the leading bit, then four limbs of 13 bits,         *)
(* e |-> the binary exponent of the leading bit].                          *)

MantissaBits == 53
Base == 2^13
Limbs == (MantissaBits - 1) \div 13

\* limbs + 1; a carry out of the 13-bit limbs lands in the first limb.
RECURSIVE IncLimbs(_)
IncLimbs(limbs) ==
    LET k == Len(limbs) IN
    IF k = 1 \/ limbs[k] + 1 < Base THEN [limbs EXCEPT ![k] = @ + 1]
    ELSE Append(IncLimbs(SubSeq(limbs, 1, k - 1)), 0)

\* Round to nearest, ties to even: `up` says whether the discarded part
\* calls for an increment of the kept significand.
RoundLimbs(limbs, e, up) ==
    IF ~up THEN [m |-> limbs, e |-> e]
    ELSE LET inc == IncLimbs(limbs)
         IN  IF inc[1] = 2
             THEN [m |-> <<1>> \o [i \in 1..Limbs |-> 0], e |-> e + 1]
             ELSE [m |-> inc, e |-> e]

\* The next k quotient limbs of r / n (r < n), with the final remainder.
RECURSIVE DivLimbs(_, _, _, _)
DivLimbs(r, n, k, acc) ==
    IF k = 0 THEN [limbs |-> acc, rem |-> r]
    ELSE DivLimbs((r * Base) % n, n, k - 1, Append(acc, (r * Base) \div n))

RECURSIVE NormShift(_, _, _)
NormShift(c, n, p) == IF c * (2^p) >= n THEN p ELSE NormShift(c, n, p + 1)

\* c / n for integers 1 <= c <= n, correctly rounded.
FDiv(c, n) ==
    LET p  == NormShift(c, n, 0)
        d  == DivLimbs(c * (2^p) - n, n, Limbs, <<1>>)
        up == \/ 2 * d.rem > n
              \/ 2 * d.rem = n /\ (d.limbs[Limbs + 1] % 2) = 1
    IN  RoundLimbs(d.limbs, 0 - p, up)

\* limbs * k, least significant limb first; the first limb takes the excess.
RECURSIVE MulLimbs(_, _, _, _)
MulLimbs(limbs, k, carry, acc) ==
    LET n == Len(limbs)
        t == k * limbs[n] + carry
    IN  IF n = 1 THEN <<t>> \o acc
        ELSE MulLimbs(SubSeq(limbs, 1, n - 1), k, t \div Base, <<t % Base>> \o acc)

RECURSIVE BitLen(_)
BitLen(v) == IF v = 0 THEN 0 ELSE 1 + BitLen(v \div 2)

\* x * k for a double x and a small positive integer k, correctly rounded.
FMulSmall(x, k) ==
    LET prod    == MulLimbs(x.m, k, 0, <<>>)
        s       == BitLen(prod[1]) - 1
        shifted == [i \in 1..(Limbs + 1) |->
                      IF i = 1 THEN prod[1] \div (2^s)
                      ELSE ((prod[i - 1] % (2^s)) * (2^(13 - s))) + (prod[i] \div (2^s))]
        dropped == prod[Limbs + 1] % (2^s)
        guard   == s > 0 /\ dropped >= 2^(s - 1)
        sticky  == s > 0 /\ dropped % (2^(s - 1)) # 0
        up      == guard /\ (sticky \/ (shifted[Limbs + 1] % 2) = 1)
    IN  RoundLimbs(shifted, x.e + s, up)

\* Math.round of a positive double below 2^12: floor(x + 0.5).
MathRound(x) ==
    IF x.e < 0 - 1 THEN 0
    ELSE IF x.e = 0 - 1 THEN 1
    ELSE LET top == x.m[1] * Base + x.m[2]
         IN  (top \div (2^(13 - x.e))) + ((top \div (2^(12 - x.e))) % 2)

\* ScorePercent without the division by the number of questions.
ScorePercent_Unscaled(correctCount, n) == IF n = 0 THEN NaN ELSE correctCount * 100

\* Math.round((correctCount / n) * 100); 0 / 0 is NaN.
ScorePercent(correctCount, n) ==
    IF n = 0 THEN NaN
    ELSE IF correctCount = 0 THEN 0
    ELSE MathRound(FMulSmall(FDiv(correctCount, n), 100))

----------------------------------------------------------------------------
(* Tables and queries.                                                     *)

UserIds == {1, 2}

\* seedQuests: the three quests of an empty database, ids 1..3.
Quests ==
    << [id |-> 1, type |-> "Daily",   targetCount |-> 1,  rewardXp |-> 50,  criteria |-> "lesson_completion"],
       [id |-> 2, type |-> "Daily",   targetCount |-> 10, rewardXp |-> 20,  criteria |-> "word_count"],
       [id |-> 3, type |-> "Monthly", targetCount |-> 7,  rewardXp |-> 500, criteria |-> "streak"] >>

\* const [row] = await db.select()... : the first row or undefined.
First(rows) == IF rows = <<>> THEN Undefined ELSE rows[1]

GetQuests == Quests

GetUser(id) == IF id \in DOMAIN users THEN [id |-> id] @@ users[id] ELSE Undefined

\* db.update(users).set(updates).where(eq(users.id, id)), with updates = {xp}
UpdateUserXp(id, xp) ==
    IF id \in DOMAIN users THEN [users EXCEPT ![id].xp = xp] ELSE users

GetUserQuests(userId) == SelectSeq(userQuests, LAMBDA r : r.userId = userId)

SelectUserQuest(userId, questId) ==
    First(SelectSeq(userQuests, LAMBDA r : r.userId = userId /\ r.questId = questId))

\* claimQuest setting the claimed flag alone.
ClaimQuestTable_ClaimedOnly(userId, questId) ==
    [i \in DOMAIN userQuests |->
        IF userQuests[i].userId = userId /\ userQuests[i].questId = questId
        THEN [userQuests[i] EXCEPT !.claimed = TRUE]
        ELSE userQuests[i]]

\* The table after claimQuest's UPDATE ... WHERE user_id = ? AND quest_id = ?
ClaimQuestTable(userId, questId) ==
    [i \in DOMAIN userQuests |->
        IF userQuests[i].userId = userId /\ userQuests[i].questId = questId
        THEN [userQuests[i] EXCEPT !.claimed = TRUE, !.completed = TRUE]
        ELSE userQuests[i]]

\* ... and its first returned row.
ClaimQuestResult(userId, questId) ==
    First(SelectSeq(ClaimQuestTable(userId, questId),
                    LAMBDA r : r.userId = userId /\ r.questId = questId))

\* updateUserQuest, second statement: UPDATE by the id read, or INSERT.
UpdateUserQuestTable(existing, userId, questId, progress) ==
    IF existing # Undefined
    THEN [i \in DOMAIN userQuests |->
            IF userQuests[i].id = existing.id
            THEN [userQuests[i] EXCEPT !.progress = progress]
            ELSE userQuests[i]]
    ELSE Append(userQuests,
                [id |-> Len(userQuests) + 1, userId |-> userId, questId |-> questId,
                 progress |-> progress, completed |-> FALSE, claimed |-> FALSE])

\* The calendar date of the run, new Date().toISOString().split('T')[0].
Today == "2026-01-15"

Difficulties == <<"beginner", "intermediate", "expert", "master">>

Question(label, correctIndex) ==
    [question |-> label, options |-> <<"a", "b", "c", "d">>, correctIndex |-> correctIndex]

\* generateDailyQuizQuestions: five questions per tier (texts abbreviated, the
\* correct indices are those of the source).
RECURSIVE QuestionsFrom(_, _)
QuestionsFrom(label, indices) ==
    IF indices = <<>> THEN <<>>
    ELSE <<Question(label, Head(indices))>> \o QuestionsFrom(label, Tail(indices))

GenerateDailyQuizQuestions(difficulty) ==
    IF difficulty = "intermediate" THEN QuestionsFrom("intermediate", <<2, 0, 2, 2, 1>>)
    ELSE IF difficulty = "expert" THEN QuestionsFrom("expert", <<0, 1, 2, 1, 2>>)
    ELSE IF difficulty = "master" THEN QuestionsFrom("master", <<0, 2, 0, 2, 1>>)
    ELSE QuestionsFrom("beginner", <<1, 1, 1, 2, 0>>)

SeedRewardXp(difficulty) ==
    IF difficulty = "beginner" THEN 15
    ELSE IF difficulty = "intermediate" THEN 25
    ELSE IF difficulty = "expert" THEN 35 ELSE 50

\* getDailyQuiz matching on the difficulty alone.
GetDailyQuizIn_AnyDate(table, date, difficulty) ==
    First(SelectSeq(table, LAMBDA z : z.difficulty = difficulty))

GetDailyQuizIn(table, date, difficulty) ==
    First(SelectSeq(table, LAMBDA z : z.quizDate = date /\ z.difficulty = difficulty))

GetDailyQuiz(date, difficulty) == GetDailyQuizIn(dailyQuizzes, date, difficulty)

GetDailyQuizById(id) == First(SelectSeq(dailyQuizzes, LAMBDA z : z.id = id))

\* seedDailyQuizzes: for each tier in turn, create today's quiz unless one exists.
RECURSIVE SeedDailyQuizzesFrom(_, _, _)
SeedDailyQuizzesFrom(table, today, k) ==
    IF k > Len(Difficulties) THEN table
    ELSE LET difficulty == Difficulties[k]
             next == IF GetDailyQuizIn(table, today, difficulty) = Undefined
                     THEN Append(table,
                                 [id |-> Len(table) + 1, quizDate |-> today,
                                  difficulty |-> difficulty,
                                  questions |-> GenerateDailyQuizQuestions(difficulty),
                                  rewardXp |-> SeedRewardXp(difficulty)])
                     ELSE table
         IN  SeedDailyQuizzesFrom(next, today, k + 1)

SeedDailyQuizzes(table, today) == SeedDailyQuizzesFrom(table, today, 1)

GetDailyQuizProgress(userId, quizId) ==
    First(SelectSeq(dailyQuizProgress, LAMBDA p : p.userId = userId /\ p.quizId = quizId))

\* completeDailyQuiz, second statement: UPDATE ... WHERE user_id = ? AND
\* quiz_id = ?, or INSERT.
CompleteDailyQuizTable(existing, userId, quizId, score, userAnswers) ==
    IF existing # Undefined
    THEN [i \in DOMAIN dailyQuizProgress |->
            IF dailyQuizProgress[i].userId = userId /\ dailyQuizProgress[i].quizId = quizId
            THEN [dailyQuizProgress[i] EXCEPT !.completed = TRUE, !.score = score,
                                              !.userAnswers = userAnswers]
            ELSE dailyQuizProgress[i]]
    ELSE Append(dailyQuizProgress,
                [id |-> Len(dailyQuizProgress) + 1, userId |-> userId, quizId |-> quizId,
                 completed |-> TRUE, score |-> score, userAnswers |-> userAnswers])

\* The row completeDailyQuiz returns: the first updated row, or the created one.
CompleteDailyQuizResult(existing, userId, quizId, score, userAnswers) ==
    LET table == CompleteDailyQuizTable(existing, userId, quizId, score, userAnswers)
    IN  IF existing # Undefined
        THEN First(SelectSeq(table, LAMBDA p : p.userId = userId /\ p.quizId = quizId))
        ELSE table[Len(table)]

SelectLessonProgress(userId, lessonId) ==
    First(SelectSeq(lessonProgress, LAMBDA p : p.userId = userId /\ p.lessonId = lessonId))

----------------------------------------------------------------------------
(* Requests.                                                               *)

NoReq ==
    [op |-> "none", pc |-> "idle", userId |-> 0, id |-> 0,
     score |-> 0, userAnswers |-> Undefined, progress |-> 0,
     quest |-> Undefined, quiz |-> Undefined, existing |-> Undefined, result |-> Undefined,
     user |-> Undefined, status |-> 0, body |-> Undefined,
     today |-> "", difficulty |-> 0]

\* Requests arrive in slot order; a slot is used once.
CanStart(r) == req[r].pc = "idle" /\ (IF r = 1 THEN TRUE ELSE req[r - 1].pc # "idle")

\* res.status(status).json(body): the handler returns, its locals die.
Respond(r, status, body) ==
    [req[r] EXCEPT !.pc = "done", !.status = status, !.body = body,
                   !.quest = Undefined, !.quiz = Undefined, !.existing = Undefined,
                   !.result = Undefined, !.user = Undefined]

Message(m) == [message |-> m]

----------------------------------------------------------------------------
(* storage.seedDailyQuizzes(), one step per `await` of its loop.  The run  *)
(* keeps `today` and the position of its loop in `difficulty`.             *)

\* The next iteration of `for (const difficulty of difficulties)`, or the end.
SeedAdvance(r) ==
    IF req[r].difficulty < Len(Difficulties)
    THEN [req[r] EXCEPT !.pc = "seed:getDailyQuiz", !.difficulty = @ + 1,
                        !.existing = Undefined]
    ELSE Respond(r, 200, Undefined)

\* A run starts: today = new Date().toISOString().split('T')[0].
SeedStart(r, today) ==
    /\ CanStart(r)
    /\ req' = [req EXCEPT ![r] =
                 [NoReq EXCEPT !.op = "seed", !.pc = "seed:getDailyQuiz",
                               !.today = today, !.difficulty = 1]]
    /\ UNCHANGED <<page, users, userQuests, lessonProgress, dailyQuizzes, dailyQuizProgress>>

\* `const existing = await this.getDailyQuiz(today, difficulty)`
SeedGetDailyQuiz(r) ==
    /\ req[r].pc = "seed:getDailyQuiz"
    /\ LET existing == GetDailyQuiz(req[r].today, Difficulties[req[r].difficulty])
       IN  req' = [req EXCEPT ![r] =
                     IF existing = Undefined
                     THEN [@ EXCEPT !.pc = "seed:createDailyQuiz"]
                     ELSE SeedAdvance(r)]
    /\ UNCHANGED <<page, users, userQuests, lessonProgress, dailyQuizzes, dailyQuizProgress>>

\* `await this.createDailyQuiz({ quizDate: today, difficulty, ... })`
SeedCreateDailyQuiz(r) ==
    /\ req[r].pc = "seed:createDailyQuiz"
    /\ LET difficulty == Difficulties[req[r].difficulty]
       IN  dailyQuizzes' =
              Append(dailyQuizzes,
                     [id |-> Len(dailyQuizzes) + 1, quizDate |-> req[r].today,
                      difficulty |-> difficulty,
                      questions |-> GenerateDailyQuizQuestions(difficulty),
                      rewardXp |-> SeedRewardXp(difficulty)])
    /\ req' = [req EXCEPT ![r] = SeedAdvance(r)]
    /\ UNCHANGED <<page, users, userQuests, lessonProgress, dailyQuizProgress>>

----------------------------------------------------------------------------
(* storage.updateUserQuest(userId, questId, progress)                     *)

QuestArgs == {3, 4}         \* the streak quest (target 7) and an id that does not exist
ProgressArgs == {3, 7}      \* below the target, and the target

UpdateUserQuestSelect(r, userId, questId, progress) ==
    /\ CanStart(r)
    /\ req' = [req EXCEPT ![r] =
                 [NoReq EXCEPT !.op = "updateUserQuest", !.pc = "uq:write",
                               !.userId = userId, !.id = questId, !.progress = progress,
                               !.existing = SelectUserQuest(userId, questId)]]
    /\ UNCHANGED <<page, users, userQuests, lessonProgress, dailyQuizzes, dailyQuizProgress>>

UpdateUserQuestWrite(r) ==
    /\ req[r].pc = "uq:write"
    /\ userQuests' = UpdateUserQuestTable(req[r].existing, req[r].userId, req[r].id, req[r].progress)
    /\ req' = [req EXCEPT ![r] = Respond(r, 200, Undefined)]
    /\ UNCHANGED <<page, users, lessonProgress, dailyQuizzes, dailyQuizProgress>>

----------------------------------------------------------------------------
(* POST /api/quests/:id/claim                                              *)

\* Arrival and `await storage.getQuests()`.
ClaimGetQuests(r, userId, questId) ==
    /\ CanStart(r)
    /\ LET quest == First(SelectSeq(GetQuests, LAMBDA q : q.id = questId))  \* .find
           started == [NoReq EXCEPT !.op = "claim", !.userId = userId, !.id = questId]
       IN  req' = [req EXCEPT ![r] =
                     IF quest = Undefined
                     THEN [started EXCEPT !.pc = "done", !.status = 404,
                                          !.body = Message("Quest not found")]
                     ELSE [started EXCEPT !.pc = "claim:getUserQuests", !.quest = quest]]
    /\ UNCHANGED <<page, users, userQuests, lessonProgress, dailyQuizzes, dailyQuizProgress>>

\* ClaimCheck without its last check: an uncompleted quest may be claimed.
ClaimCheck_NoProgressCheck(existingUserQuest, quest) ==
    IF existingUserQuest = Undefined THEN "Quest progress not found"
    ELSE IF existingUserQuest.claimed THEN "Quest already claimed"
    ELSE ""

\* ClaimCheck looking at the progress before the claimed flag.
ClaimCheck_ProgressFirst(existingUserQuest, quest) ==
    IF existingUserQuest = Undefined THEN "Quest progress not found"
    ELSE IF existingUserQuest.progress < quest.targetCount THEN "Quest not completed yet"
    ELSE IF existingUserQuest.claimed THEN "Quest already claimed"
    ELSE ""

\* The three checks on the row read: the message of the 400 response, or ""
\* when the claim may proceed.
ClaimCheck(existingUserQuest, quest) ==
    IF existingUserQuest = Undefined THEN "Quest progress not found"
    ELSE IF existingUserQuest.claimed THEN "Quest already claimed"
    ELSE IF existingUserQuest.progress < quest.targetCount THEN "Quest not completed yet"
    ELSE ""

\* `await storage.getUserQuests(...)` and the checks.
ClaimGetUserQuests(r) ==
    /\ req[r].pc = "claim:getUserQuests"
    /\ LET existingUserQuest ==
               First(SelectSeq(GetUserQuests(req[r].userId),
                               LAMBDA uq : uq.questId = req[r].id))  \* .find
           failure == ClaimCheck(existingUserQuest, req[r].quest)
       IN  req' = [req EXCEPT ![r] =
                     IF failure # ""
                     THEN Respond(r, 400, Message(failure))
                     ELSE [@ EXCEPT !.pc = "claim:claimQuest", !.existing = existingUserQuest]]
    /\ UNCHANGED <<page, users, userQuests, lessonProgress, dailyQuizzes, dailyQuizProgress>>

\* `await storage.claimQuest(...)`
ClaimClaimQuest(r) ==
    /\ req[r].pc = "claim:claimQuest"
    /\ userQuests' = ClaimQuestTable(req[r].userId, req[r].id)
    /\ req' = [req EXCEPT ![r] =
                 [@ EXCEPT !.pc = "claim:getUser",
                           !.result = ClaimQuestResult(req[r].userId, req[r].id)]]
    /\ UNCHANGED <<page, users, lessonProgress, dailyQuizzes, dailyQuizProgress>>

\* `await storage.getUser(...)`; without a user or a result the handler responds.
ClaimGetUser(r) ==
    /\ req[r].pc = "claim:getUser"
    /\ LET user == GetUser(req[r].userId)
       IN  req' = [req EXCEPT ![r] =
                     IF user # Undefined /\ req[r].result # Undefined
                     THEN [@ EXCEPT !.pc = "claim:updateUser", !.user = user]
                     ELSE Respond(r, 200, req[r].result)]
    /\ UNCHANGED <<page, users, userQuests, lessonProgress, dailyQuizzes, dailyQuizProgress>>

\* ClaimNewXp granting the quest's target count instead of its reward.
ClaimNewXp_TargetCount(user, quest) == user.xp + quest.targetCount

\* The XP a claim writes: user.xp + quest.rewardXp.
ClaimNewXp(user, quest) == user.xp + quest.rewardXp

\* `await storage.updateUser(user.id, {xp: ...})`, then res.json(result).
ClaimUpdateUser(r) ==
    /\ req[r].pc = "claim:updateUser"
    /\ users' = UpdateUserXp(req[r].user.id, ClaimNewXp(req[r].user, req[r].quest))
    /\ req' = [req EXCEPT ![r] = Respond(r, 200, req[r].result)]
    /\ UNCHANGED <<page, userQuests, lessonProgress, dailyQuizzes, dailyQuizProgress>>

\* The handler ends after claimQuest without reaching the XP write: the
\* `await storage.getUser(...)` or `await storage.updateUser(...)` rejects, or
\* the process ends.  Nothing undoes the claimed write.
ClaimStop(r) ==
    /\ req[r].pc \in {"claim:getUser", "claim:updateUser"}
    /\ req' = [req EXCEPT ![r] = [Respond(r, 0, Undefined) EXCEPT !.pc = "thrown"]]
    /\ UNCHANGED <<page, users, userQuests, lessonProgress, dailyQuizzes, dailyQuizProgress>>

----------------------------------------------------------------------------
(* POST /api/daily-quiz/:id/complete                                       *)

\* A JSON array in a request body or a jsonb column.
Array(elements) == [array |-> elements]
IsArray(v) == DOMAIN v = {"array"}

\* The loop over the questions: positions where userAnswers[i] === correctIndex
\* (userAnswers[i] is undefined past the end of the array).
RECURSIVE CorrectCount(_, _, _)
CorrectCount(questions, answers, i) ==
    IF i > Len(questions) THEN 0
    ELSE (IF i \in DOMAIN answers /\ answers[i] = questions[i].correctIndex THEN 1 ELSE 0)
         + CorrectCount(questions, answers, i + 1)

\* Calculate score server-side.
Score(questions, userAnswers) ==
    ScorePercent(CorrectCount(questions, userAnswers.array, 1), Len(questions))

\* SubmitCheck without the completed check: a completed quiz may be resubmitted.
SubmitCheck_NoCompletedCheck(existingProgress, userAnswers, questions) ==
    IF ~IsArray(userAnswers) THEN "Invalid answers"
    ELSE IF Len(userAnswers.array) # Len(questions) THEN "Invalid answers"
    ELSE ""

\* SubmitCheck without the length check.
SubmitCheck_NoLengthCheck(existingProgress, userAnswers, questions) ==
    IF existingProgress # Undefined /\ existingProgress.completed THEN "Quiz already completed"
    ELSE IF ~IsArray(userAnswers) THEN "Invalid answers"
    ELSE ""

\* SubmitCheck validating the answers before the completed flag.
SubmitCheck_AnswersFirst(existingProgress, userAnswers, questions) ==
    IF ~IsArray(userAnswers) THEN "Invalid answers"
    ELSE IF Len(userAnswers.array) # Len(questions) THEN "Invalid answers"
    ELSE IF existingProgress # Undefined /\ existingProgress.completed THEN "Quiz already completed"
    ELSE ""

\* The checks before scoring: the message of the 400 response, or "".
SubmitCheck(existingProgress, userAnswers, questions) ==
    IF existingProgress # Undefined /\ existingProgress.completed THEN "Quiz already completed"
    ELSE IF ~IsArray(userAnswers) THEN "Invalid answers"
    ELSE IF Len(userAnswers.array) # Len(questions) THEN "Invalid answers"
    ELSE ""

\* Arrival and `await storage.getDailyQuizById(quizId)`.
SubmitGetQuiz(r, userId, quizId, userAnswers) ==
    /\ CanStart(r)
    /\ LET quiz == GetDailyQuizById(quizId)
           started == [NoReq EXCEPT !.op = "submit", !.userId = userId, !.id = quizId,
                                    !.userAnswers = userAnswers]
       IN  req' = [req EXCEPT ![r] =
                     IF quiz = Undefined
                     THEN [started EXCEPT !.pc = "done", !.status = 404,
                                          !.body = Message("Quiz not found")]
                     ELSE [started EXCEPT !.pc = "submit:getProgress", !.quiz = quiz]]
    /\ UNCHANGED <<page, users, userQuests, lessonProgress, dailyQuizzes, dailyQuizProgress>>

\* `await storage.getDailyQuizProgress(...)`, the checks and the score.
SubmitGetProgress(r) ==
    /\ req[r].pc = "submit:getProgress"
    /\ LET existingProgress == GetDailyQuizProgress(req[r].userId, req[r].id)
           quizQuestions == req[r].quiz.questions
           failure == SubmitCheck(existingProgress, req[r].userAnswers, quizQuestions)
       IN  req' = [req EXCEPT ![r] =
                     IF failure # ""
                     THEN Respond(r, 400, Message(failure))
                     ELSE [@ EXCEPT !.pc = "submit:complete:select",
                                    !.score = Score(quizQuestions, req[r].userAnswers)]]
    /\ UNCHANGED <<page, users, userQuests, lessonProgress, dailyQuizzes, dailyQuizProgress>>

\* completeDailyQuiz: `await this.getDailyQuizProgress(userId, quizId)`.
SubmitCompleteSelect(r) ==
    /\ req[r].pc = "submit:complete:select"
    /\ req' = [req EXCEPT ![r] =
                 [@ EXCEPT !.pc = "submit:complete:write",
                           !.existing = GetDailyQuizProgress(req[r].userId, req[r].id)]]
    /\ UNCHANGED <<page, users, userQuests, lessonProgress, dailyQuizzes, dailyQuizProgress>>

\* completeDailyQuiz: the UPDATE or the INSERT.  An integer column does not
\* take NaN: the statement is rejected and the handler ends without a response.
SubmitCompleteWrite(r) ==
    /\ req[r].pc = "submit:complete:write"
    /\ IF req[r].score = NaN
       THEN /\ req' = [req EXCEPT ![r] = [Respond(r, 0, Undefined) EXCEPT !.pc = "thrown"]]
            /\ UNCHANGED dailyQuizProgress
       ELSE /\ dailyQuizProgress' =
                   CompleteDailyQuizTable(req[r].existing, req[r].userId, req[r].id,
                                          req[r].score, req[r].userAnswers)
            /\ req' = [req EXCEPT ![r] =
                         [@ EXCEPT !.pc = "submit:getUser",
                                   !.result = CompleteDailyQuizResult(
                                                 req[r].existing, req[r].userId, req[r].id,
                                                 req[r].score, req[r].userAnswers)]]
    /\ UNCHANGED <<page, users, userQuests, lessonProgress, dailyQuizzes>>

\* res.json({ ...progress, score })
SubmitBody(progress, score) == [progress EXCEPT !.score = score]

\* `await storage.getUser(...)`
SubmitGetUser(r) ==
    /\ req[r].pc = "submit:getUser"
    /\ LET user == GetUser(req[r].userId)
       IN  req' = [req EXCEPT ![r] =
                     IF user # Undefined
                     THEN [@ EXCEPT !.pc = "submit:updateUser", !.user = user]
                     ELSE Respond(r, 200, SubmitBody(req[r].result, req[r].score))]
    /\ UNCHANGED <<page, users, userQuests, lessonProgress, dailyQuizzes, dailyQuizProgress>>

\* SubmitNewXp with the bonus only above a score of 80.
SubmitNewXp_BonusAbove80(user, quiz, score) ==
    user.xp + quiz.rewardXp + (IF score > 80 THEN 10 ELSE 0)

\* The XP a submission writes: user.xp + quiz.rewardXp + bonusXp.
SubmitNewXp(user, quiz, score) ==
    user.xp + quiz.rewardXp + (IF score >= 80 THEN 10 ELSE 0)

\* `await storage.updateUser(...)`, then res.json({ ...progress, score }).
SubmitUpdateUser(r) ==
    /\ req[r].pc = "submit:updateUser"
    /\ users' = UpdateUserXp(req[r].user.id,
                              SubmitNewXp(req[r].user, req[r].quiz, req[r].score))
    /\ req' = [req EXCEPT ![r] = Respond(r, 200, SubmitBody(req[r].result, req[r].score))]
    /\ UNCHANGED <<page, userQuests, lessonProgress, dailyQuizzes, dailyQuizProgress>>

----------------------------------------------------------------------------
(* POST /api/lessons/:id/complete                                          *)

Max(a, b) == IF a >= b THEN a ELSE b

\* LessonScore storing the latest score.
LessonScore_Latest(existing, score) == score

\* Math.max(existing.score || 0, score)
LessonScore(existing, score) ==
    Max(IF existing.score = 0 THEN 0 ELSE existing.score, score)

\* userAnswers || existing.userAnswers
LessonAnswers(existing, userAnswers) ==
    IF userAnswers = Undefined THEN existing.userAnswers ELSE userAnswers

\* updateLessonProgress, second statement: UPDATE by the id read, or INSERT.
UpdateLessonProgressTable(existing, userId, lessonId, score, userAnswers) ==
    IF existing # Undefined
    THEN [i \in DOMAIN lessonProgress |->
            IF lessonProgress[i].id = existing.id
            THEN [lessonProgress[i] EXCEPT !.completed = TRUE,
                                           !.score = LessonScore(existing, score),
                                           !.userAnswers = LessonAnswers(existing, userAnswers)]
            ELSE lessonProgress[i]]
    ELSE Append(lessonProgress,
                [id |-> Len(lessonProgress) + 1, userId |-> userId, lessonId |-> lessonId,
                 completed |-> TRUE, score |-> score, userAnswers |-> userAnswers])

\* The row updateLessonProgress returns.
UpdateLessonProgressResult(existing, userId, lessonId, score, userAnswers) ==
    LET table == UpdateLessonProgressTable(existing, userId, lessonId, score, userAnswers)
    IN  IF existing # Undefined
        THEN First(SelectSeq(table, LAMBDA p : p.id = existing.id))
        ELSE table[Len(table)]

\* Arrival and updateLessonProgress's SELECT.
LessonSelect(r, userId, lessonId, score, userAnswers) ==
    /\ CanStart(r)
    /\ req' = [req EXCEPT ![r] =
                 [NoReq EXCEPT !.op = "lesson", !.pc = "lesson:write",
                               !.userId = userId, !.id = lessonId, !.score = score,
                               !.userAnswers = userAnswers,
                               !.existing = SelectLessonProgress(userId, lessonId)]]
    /\ UNCHANGED <<page, users, userQuests, lessonProgress, dailyQuizzes, dailyQuizProgress>>

\* updateLessonProgress's UPDATE or INSERT.
LessonWrite(r) ==
    /\ req[r].pc = "lesson:write"
    /\ lessonProgress' =
          UpdateLessonProgressTable(req[r].existing, req[r].userId, req[r].id,
                                    req[r].score, req[r].userAnswers)
    /\ req' = [req EXCEPT ![r] =
                 [@ EXCEPT !.pc = "lesson:getUser",
                           !.result = UpdateLessonProgressResult(
                                         req[r].existing, req[r].userId, req[r].id,
                                         req[r].score, req[r].userAnswers)]]
    /\ UNCHANGED <<page, users, userQuests, dailyQuizzes, dailyQuizProgress>>

\* `await storage.getUser(...)`
LessonGetUser(r) ==
    /\ req[r].pc = "lesson:getUser"
    /\ LET user == GetUser(req[r].userId)
       IN  req' = [req EXCEPT ![r] =
                     IF user # Undefined
                     THEN [@ EXCEPT !.pc = "lesson:updateUser", !.user = user]
                     ELSE Respond(r, 200, req[r].result)]
    /\ UNCHANGED <<page, users, userQuests, lessonProgress, dailyQuizzes, dailyQuizProgress>>

\* LessonNewXp with the bonus from a score of 80 on.
LessonNewXp_BonusAt80(user, score) == user.xp + 10 + (IF score >= 80 THEN 5 ELSE 0)

\* LessonNewXp storing the grant alone.
LessonNewXp_GrantOnly(user, score) == 10 + (IF score > 80 THEN 5 ELSE 0)

\* newXp = user.xp + 10 + (score > 80 ? 5 : 0)
LessonNewXp(user, score) == user.xp + 10 + (IF score > 80 THEN 5 ELSE 0)

\* `await storage.updateUser(user.id, { xp: newXp })`, then res.json(progress).
LessonUpdateUser(r) ==
    /\ req[r].pc = "lesson:updateUser"
    /\ users' = UpdateUserXp(req[r].user.id, LessonNewXp(req[r].user, req[r].score))
    /\ req' = [req EXCEPT ![r] = Respond(r, 200, req[r].result)]
    /\ UNCHANGED <<page, userQuests, lessonProgress, dailyQuizzes, dailyQuizProgress>>

----------------------------------------------------------------------------
(* GET /api/daily-quiz and GET /api/daily-quiz/:id                         *)

\* StripAnswers returning the questions as stored.
StripAnswers_KeepsAll(quiz, isCompleted) == quiz

\* stripAnswers: an active quiz goes out with question and options only.
StripAnswers(quiz, isCompleted) ==
    IF isCompleted THEN quiz
    ELSE [quiz EXCEPT !.questions =
            [i \in DOMAIN quiz.questions |->
                [question |-> quiz.questions[i].question,
                 options |-> quiz.questions[i].options]]]

\* progress?.completed || false
IsCompleted(progress) == IF progress = Undefined THEN FALSE ELSE progress.completed

\* The body both fetch handlers send.
QuizResponse(quiz, progress) ==
    [quiz |-> StripAnswers(quiz, IsCompleted(progress)),
     completed |-> IsCompleted(progress),
     score |-> IF progress = Undefined THEN Undefined ELSE progress.score,
     userAnswers |-> IF progress = Undefined THEN Undefined ELSE progress.userAnswers]

\* user.skillLevel || "beginner"
UserDifficulty(user) == IF user.skillLevel = NullText THEN "beginner" ELSE user.skillLevel

\* GET /api/daily-quiz: arrival and `await storage.getDailyQuiz(today, userDifficulty)`.
TodayGetQuiz(r, userId) ==
    /\ CanStart(r)
    /\ LET quiz == GetDailyQuiz(Today, UserDifficulty(users[userId]))
           started == [NoReq EXCEPT !.op = "today", !.userId = userId]
       IN  req' = [req EXCEPT ![r] =
                     IF quiz = Undefined
                     THEN [started EXCEPT !.pc = "done", !.status = 404,
                              !.body = Message("No daily quiz available for today")]
                     ELSE [started EXCEPT !.pc = "today:getProgress", !.quiz = quiz,
                                          !.id = quiz.id]]
    /\ UNCHANGED <<page, users, userQuests, lessonProgress, dailyQuizzes, dailyQuizProgress>>

\* `await storage.getDailyQuizProgress(user.id, quiz.id)`, then res.json.
TodayGetProgress(r) ==
    /\ req[r].pc = "today:getProgress"
    /\ req' = [req EXCEPT ![r] =
                 Respond(r, 200, QuizResponse(req[r].quiz,
                                     GetDailyQuizProgress(req[r].userId, req[r].quiz.id)))]
    /\ UNCHANGED <<page, users, userQuests, lessonProgress, dailyQuizzes, dailyQuizProgress>>

\* GET /api/daily-quiz/:id: arrival and `await storage.getDailyQuizById(...)`.
ByIdGetQuiz(r, userId, quizId) ==
    /\ CanStart(r)
    /\ LET quiz == GetDailyQuizById(quizId)
           started == [NoReq EXCEPT !.op = "byId", !.userId = userId, !.id = quizId]
       IN  req' = [req EXCEPT ![r] =
                     IF quiz = Undefined
                     THEN [started EXCEPT !.pc = "done", !.status = 404,
                                          !.body = Message("Quiz not found")]
                     ELSE [started EXCEPT !.pc = "byId:getProgress", !.quiz = quiz]]
    /\ UNCHANGED <<page, users, userQuests, lessonProgress, dailyQuizzes, dailyQuizProgress>>

\* `await storage.getDailyQuizProgress(req.user.id, quiz.id)`, then res.json.
ByIdGetProgress(r) ==
    /\ req[r].pc = "byId:getProgress"
    /\ req' = [req EXCEPT ![r] =
                 Respond(r, 200, QuizResponse(req[r].quiz,
                                     GetDailyQuizProgress(req[r].userId, req[r].quiz.id)))]
    /\ UNCHANGED <<page, users, userQuests, lessonProgress, dailyQuizzes, dailyQuizProgress>>

----------------------------------------------------------------------------
(* DailyQuizPage: the component's state and its event handlers.            *)

PageUser == 1

\* null in a `number | null` state.
NullNumber == 0 - 1

\* The state of a freshly mounted page; `sent` lists the answers of every
\* completeMutation.mutate call, `mutation` is the mutation's status.
NoPage ==
    [data |-> Undefined, currentQuestionIndex |-> 0, selectedAnswer |-> NullNumber,
     userAnswers |-> <<>>, isReviewMode |-> FALSE, finalScore |-> NullNumber,
     mutation |-> "idle", sent |-> <<>>]

\* const questions = (quiz.questions as QuizQuestion[]) || []
PageQuestions == IF page.data = Undefined THEN <<>> ELSE page.data.quiz.questions

PageAlreadyCompleted == page.data # Undefined /\ page.data.completed

PageQuizCompleted == page.mutation = "success" \/ PageAlreadyCompleted

\* The render branch that shows the current question and its button.
PageShowsQuestion ==
    /\ page.data # Undefined
    /\ ~(PageAlreadyCompleted /\ ~page.isReviewMode)
    /\ ~page.isReviewMode
    /\ ~PageQuizCompleted
    /\ page.mutation # "pending"
    /\ page.currentQuestionIndex < Len(PageQuestions)

\* What GET /api/daily-quiz answers the page's user now, or undefined (404).
PageFetched ==
    LET user == GetUser(PageUser)
        quiz == GetDailyQuiz(Today, UserDifficulty(user))
    IN  IF quiz = Undefined THEN Undefined
        ELSE QuizResponse(quiz, GetDailyQuizProgress(PageUser, quiz.id))

\* useQuery: the first load and every refetch (invalidateQueries, refetch()).
PageFetch ==
    /\ page' = [page EXCEPT !.data = PageFetched]
    /\ UNCHANGED <<users, userQuests, lessonProgress, dailyQuizzes, dailyQuizProgress, req>>

\* onValueChange of the radio group.
PageSelect(option) ==
    /\ PageShowsQuestion
    /\ page' = [page EXCEPT !.selectedAnswer = option]
    /\ UNCHANGED <<users, userQuests, lessonProgress, dailyQuizzes, dailyQuizProgress, req>>

\* handleAnswerSubmit: the Next Question / Finish Quiz button.
PageAnswerSubmit ==
    /\ PageShowsQuestion
    /\ page.selectedAnswer # NullNumber
    /\ LET newAnswers == Append(page.userAnswers, page.selectedAnswer)
       IN  IF page.currentQuestionIndex + 1 < Len(PageQuestions)
           THEN page' = [page EXCEPT !.userAnswers = newAnswers,
                                     !.currentQuestionIndex = @ + 1,
                                     !.selectedAnswer = NullNumber]
           ELSE /\ Len(page.sent) < MaxReqs
                /\ page' = [page EXCEPT !.userAnswers = newAnswers,
                                        !.mutation = "pending",
                                        !.sent = Append(@, newAnswers)]
    /\ UNCHANGED <<users, userQuests, lessonProgress, dailyQuizzes, dailyQuizProgress, req>>

\* The Review Answers button: refetch() and setIsReviewMode(true).
PageReview ==
    /\ PageAlreadyCompleted /\ ~page.isReviewMode
    /\ page' = [page EXCEPT !.data = PageFetched, !.isReviewMode = TRUE]
    /\ UNCHANGED <<users, userQuests, lessonProgress, dailyQuizzes, dailyQuizProgress, req>>

\* The Back button of the review.
PageBackFromReview ==
    /\ page.data # Undefined /\ page.isReviewMode
    /\ page' = [page EXCEPT !.isReviewMode = FALSE]
    /\ UNCHANGED <<users, userQuests, lessonProgress, dailyQuizzes, dailyQuizProgress, req>>

\* mutationFn: the r-th POST /api/daily-quiz/:id/complete of the page reaches
\* the server with the answers of the r-th mutate call.
PageSend(r) ==
    /\ r <= Len(page.sent)
    /\ SubmitGetQuiz(r, PageUser, page.data.quiz.id, Array(page.sent[r]))

\* The response of the pending mutation arrives: onSuccess or onError
\* (apiRequest throws on a status that is not ok).
PageSettled ==
    /\ page.mutation = "pending"
    /\ LET rq == req[Len(page.sent)]
       IN  /\ rq.pc = "done"
           /\ page' = IF rq.status = 200
                      THEN [page EXCEPT !.mutation = "success", !.finalScore = rq.body.score]
                      ELSE [page EXCEPT !.mutation = "error"]
    /\ UNCHANGED <<users, userQuests, lessonProgress, dailyQuizzes, dailyQuizProgress, req>>

\* The fetch of the pending mutation rejects (the network fails): onError.
PageRequestFails ==
    /\ page.mutation = "pending"
    /\ page' = [page EXCEPT !.mutation = "error"]
    /\ UNCHANGED <<users, userQuests, lessonProgress, dailyQuizzes, dailyQuizProgress, req>>

----------------------------------------------------------------------------
(* Initial state: the database after registration of the users and the    *)
(* startup seeding; no progress rows, no requests.                         *)

\* User 1 finished onboarding as a beginner; user 2 has no skill level yet.
InitUsers ==
    [u \in UserIds |-> [xp |-> 0, skillLevel |-> IF u = 1 THEN "beginner" ELSE NullText]]

Init ==
    /\ users = InitUsers
    /\ userQuests = <<>>
    /\ lessonProgress = <<>>
    /\ dailyQuizzes = SeedDailyQuizzes(<<>>, Today)
    /\ dailyQuizProgress = <<>>
    /\ req = [r \in Reqs |-> NoReq]
    /\ page = NoPage

\* No request is between its first and its last step.
Quiescent == \A r \in Reqs : req[r].pc \in {"idle", "done", "thrown"}

(* Quest progress and claims, interleaved. *)
NextQuest ==
    \/ \E r \in Reqs, u \in UserIds, q \in QuestArgs, p \in ProgressArgs :
          UpdateUserQuestSelect(r, u, q, p)
    \/ \E r \in Reqs : UpdateUserQuestWrite(r)
    \/ \E r \in Reqs, u \in UserIds, q \in QuestArgs : ClaimGetQuests(r, u, q)
    \/ \E r \in Reqs : ClaimGetUserQuests(r)
    \/ \E r \in Reqs : ClaimClaimQuest(r)
    \/ \E r \in Reqs : ClaimGetUser(r)
    \/ \E r \in Reqs : ClaimUpdateUser(r)

SpecQuest == Init /\ [][NextQuest]_vars

(* The same operations, one request at a time. *)
NextQuestSeq ==
    \/ \E r \in Reqs, u \in UserIds, q \in QuestArgs, p \in ProgressArgs :
          Quiescent /\ UpdateUserQuestSelect(r, u, q, p)
    \/ \E r \in Reqs : UpdateUserQuestWrite(r)
    \/ \E r \in Reqs, u \in UserIds, q \in QuestArgs : Quiescent /\ ClaimGetQuests(r, u, q)
    \/ \E r \in Reqs : ClaimGetUserQuests(r)
    \/ \E r \in Reqs : ClaimClaimQuest(r)
    \/ \E r \in Reqs : ClaimGetUser(r)
    \/ \E r \in Reqs : ClaimUpdateUser(r)

SpecQuestSeq == Init /\ [][NextQuestSeq]_vars

(* Daily quiz submissions and fetches, interleaved. *)
QuizArgs == {1, 9}          \* today's beginner quiz and an id that does not exist

\* Submissions to the beginner quiz: 5, 4 and 3 correct answers (100, 80 and
\* 60 percent), one answer too few, and a body without userAnswers.
AnswerArgs ==
    {Array(<<1, 1, 1, 2, 0>>), Array(<<0, 1, 1, 2, 0>>), Array(<<0, 0, 1, 2, 0>>),
     Array(<<1>>), Undefined}

NextQuiz ==
    \/ \E r \in Reqs, u \in UserIds, z \in QuizArgs, a \in AnswerArgs : SubmitGetQuiz(r, u, z, a)
    \/ \E r \in Reqs : SubmitGetProgress(r)
    \/ \E r \in Reqs : SubmitCompleteSelect(r)
    \/ \E r \in Reqs : SubmitCompleteWrite(r)
    \/ \E r \in Reqs : SubmitGetUser(r)
    \/ \E r \in Reqs : SubmitUpdateUser(r)

SpecQuiz == Init /\ [][NextQuiz]_vars

(* The same submissions, one request at a time. *)
NextQuizSeq ==
    \/ \E r \in Reqs, u \in UserIds, z \in QuizArgs, a \in AnswerArgs :
          Quiescent /\ SubmitGetQuiz(r, u, z, a)
    \/ \E r \in Reqs : SubmitGetProgress(r)
    \/ \E r \in Reqs : SubmitCompleteSelect(r)
    \/ \E r \in Reqs : SubmitCompleteWrite(r)
    \/ \E r \in Reqs : SubmitGetUser(r)
    \/ \E r \in Reqs : SubmitUpdateUser(r)

SpecQuizSeq == Init /\ [][NextQuizSeq]_vars

(* Fetches of the quiz, interleaved with complete submissions. *)
NextQuizFetch ==
    \/ \E r \in Reqs, u \in UserIds : SubmitGetQuiz(r, u, 1, Array(<<1, 1, 1, 2, 0>>))
    \/ \E r \in Reqs : SubmitGetProgress(r)
    \/ \E r \in Reqs : SubmitCompleteSelect(r)
    \/ \E r \in Reqs : SubmitCompleteWrite(r)
    \/ \E r \in Reqs : SubmitGetUser(r)
    \/ \E r \in Reqs : SubmitUpdateUser(r)
    \/ \E r \in Reqs, u \in UserIds : TodayGetQuiz(r, u)
    \/ \E r \in Reqs : TodayGetProgress(r)
    \/ \E r \in Reqs, u \in UserIds, z \in QuizArgs : ByIdGetQuiz(r, u, z)
    \/ \E r \in Reqs : ByIdGetProgress(r)

SpecQuizFetch == Init /\ [][NextQuizFetch]_vars

(* Lesson completions, one request at a time. *)
LessonArgs == {1}
ScoreArgs == {0, 80, 81}
LessonAnswerArgs == {Undefined, Array(<<1>>)}

NextLessonSeq ==
    \/ \E r \in Reqs, u \in UserIds, l \in LessonArgs, sc \in ScoreArgs, a \in LessonAnswerArgs :
          Quiescent /\ LessonSelect(r, u, l, sc, a)
    \/ \E r \in Reqs : LessonWrite(r)
    \/ \E r \in Reqs : LessonGetUser(r)
    \/ \E r \in Reqs : LessonUpdateUser(r)

SpecLessonSeq == Init /\ [][NextLessonSeq]_vars

(* Lesson completions of one user, interleaved. *)
LessonUser == 1

NextLesson ==
    \/ \E r \in Reqs, l \in LessonArgs, sc \in ScoreArgs, a \in LessonAnswerArgs :
          LessonSelect(r, LessonUser, l, sc, a)
    \/ \E r \in Reqs : LessonWrite(r)
    \/ \E r \in Reqs : LessonGetUser(r)
    \/ \E r \in Reqs : LessonUpdateUser(r)

SpecLesson == Init /\ [][NextLesson]_vars

(* XP: lesson completions, quest progress and claims, and quiz submissions *)
(* of one user, interleaved.                                               *)
XpUser == 1
XpQuest == 1                 \* the daily lesson quest: target 1, reward 50
XpScoreArgs == {80, 90}

XpStart(r) ==
    \/ \E sc \in XpScoreArgs : LessonSelect(r, XpUser, 1, sc, Undefined)
    \/ UpdateUserQuestSelect(r, XpUser, XpQuest, 1)
    \/ ClaimGetQuests(r, XpUser, XpQuest)
    \/ SubmitGetQuiz(r, XpUser, 1, Array(<<0, 1, 1, 2, 0>>))

XpStep(r) ==
    \/ LessonWrite(r) \/ LessonGetUser(r) \/ LessonUpdateUser(r)
    \/ UpdateUserQuestWrite(r)
    \/ ClaimGetUserQuests(r) \/ ClaimClaimQuest(r) \/ ClaimGetUser(r) \/ ClaimUpdateUser(r)
    \/ SubmitGetProgress(r) \/ SubmitCompleteSelect(r) \/ SubmitCompleteWrite(r)
    \/ SubmitGetUser(r) \/ SubmitUpdateUser(r)

NextXp ==
    \/ \E r \in Reqs : XpStart(r)
    \/ \E r \in Reqs : XpStep(r)

SpecXp == Init /\ [][NextXp]_vars

NextXpSeq ==
    \/ \E r \in Reqs : Quiescent /\ XpStart(r)
    \/ \E r \in Reqs : XpStep(r)

SpecXpSeq == Init /\ [][NextXpSeq]_vars

(* Seeding runs, one server start at a time, from an empty daily_quizzes   *)
(* table, on any of three dates.                                           *)
SeedDates == {Today, "2026-01-16", "2026-01-17"}

InitSeed ==
    /\ users = InitUsers
    /\ userQuests = <<>>
    /\ lessonProgress = <<>>
    /\ dailyQuizzes = <<>>
    /\ dailyQuizProgress = <<>>
    /\ req = [r \in Reqs |-> NoReq]
    /\ page = NoPage

NextSeed ==
    \/ \E r \in Reqs, d \in SeedDates : Quiescent /\ SeedStart(r, d)
    \/ \E r \in Reqs : SeedGetDailyQuiz(r)
    \/ \E r \in Reqs : SeedCreateDailyQuiz(r)

SpecSeed == InitSeed /\ [][NextSeed]_vars

(* Claims of user 1 on tables left by earlier updateUserQuest and claim    *)
(* calls: a record of quest 3 with progress 3 or 7, unclaimed or claimed   *)
(* (claimQuest sets completed too, then updateUserQuest may lower the      *)
(* progress), and a record with the quest id 4 that no quest has.          *)
UserQuestRow(questId, progress, claimed) ==
    [id |-> 0, userId |-> 1, questId |-> questId, progress |-> progress,
     completed |-> claimed, claimed |-> claimed]

\* Rows numbered in insertion order.
Numbered(rows) == [i \in DOMAIN rows |-> [rows[i] EXCEPT !.id = i]]

ClaimOrderTables ==
    {Numbered(first \o second) :
        first \in {<<>>} \cup {<<UserQuestRow(3, p, c)>> : p \in ProgressArgs, c \in BOOLEAN},
        second \in {<<>>} \cup {<<UserQuestRow(4, p, FALSE)>> : p \in ProgressArgs}}

InitClaimOrder ==
    /\ userQuests \in ClaimOrderTables
    /\ users = [InitUsers EXCEPT ![1].xp =
                  IF \E i \in DOMAIN userQuests : userQuests[i].claimed
                  THEN Quests[3].rewardXp ELSE 0]
    /\ lessonProgress = <<>>
    /\ dailyQuizzes = SeedDailyQuizzes(<<>>, Today)
    /\ dailyQuizProgress = <<>>
    /\ req = [r \in Reqs |-> NoReq]
    /\ page = NoPage

NextClaimOrder ==
    \/ \E r \in Reqs, q \in QuestArgs : ClaimGetQuests(r, 1, q)
    \/ \E r \in Reqs : ClaimGetUserQuests(r)
    \/ \E r \in Reqs : ClaimClaimQuest(r)
    \/ \E r \in Reqs : ClaimGetUser(r)
    \/ \E r \in Reqs : ClaimUpdateUser(r)

SpecClaimOrder == InitClaimOrder /\ [][NextClaimOrder]_vars

(* Claims of user 1 on quest 1 whose handler may stop between the claimed  *)
(* write and the XP write.                                                 *)
NextClaimStop ==
    \/ \E r \in Reqs, p \in {0, 1} : UpdateUserQuestSelect(r, XpUser, XpQuest, p)
    \/ \E r \in Reqs : UpdateUserQuestWrite(r)
    \/ \E r \in Reqs : ClaimGetQuests(r, XpUser, XpQuest)
    \/ \E r \in Reqs : ClaimGetUserQuests(r)
    \/ \E r \in Reqs : ClaimClaimQuest(r)
    \/ \E r \in Reqs : ClaimGetUser(r)
    \/ \E r \in Reqs : ClaimUpdateUser(r)
    \/ \E r \in Reqs : ClaimStop(r)

SpecClaimStop == Init /\ [][NextClaimStop]_vars

(* The daily-quiz page of user 1 and the submissions it sends.             *)
OptionChoices == {0, 1}

NextPage ==
    \/ PageFetch
    \/ \E option \in OptionChoices : PageSelect(option)
    \/ PageAnswerSubmit
    \/ PageReview
    \/ PageBackFromReview
    \/ \E r \in Reqs : PageSend(r)
    \/ PageSettled
    \/ PageRequestFails
    \/ \E r \in Reqs : SubmitGetProgress(r)
    \/ \E r \in Reqs : SubmitCompleteSelect(r)
    \/ \E r \in Reqs : SubmitCompleteWrite(r)
    \/ \E r \in Reqs : SubmitGetUser(r)
    \/ \E r \in Reqs : SubmitUpdateUser(r)

SpecPage == Init /\ [][NextPage]_vars

(* Scoring: one submission to one stored quiz of 0..MaxQuestions questions. *)

\* A quiz of n questions whose correct indices cycle through the four options,
\* and the submission that answers the first k of them correctly.
CycleIndices(n) == [i \in 1..n |-> i % 4]
PrefixCorrect(n, k) == [i \in 1..n |-> IF i <= k THEN i % 4 ELSE (i + 1) % 4]

\* Short quizzes take every assignment of correct indices and every submission
\* over three options; longer ones the cycle and its prefix-correct submissions.
ScoreQuizIndices ==
    UNION {[1..n -> 0..2] : n \in 0..3} \cup {CycleIndices(n) : n \in 4..MaxQuestions}

ScoreSubmissions(n) ==
    IF n <= 3 THEN [1..n -> 0..2] ELSE {PrefixCorrect(n, k) : k \in 0..n}

RECURSIVE QuestionsOf(_, _)
QuestionsOf(indices, i) ==
    IF i > Len(indices) THEN <<>>
    ELSE <<Question("q", indices[i])>> \o QuestionsOf(indices, i + 1)

InitScore ==
    /\ users = InitUsers
    /\ userQuests = <<>>
    /\ lessonProgress = <<>>
    /\ \E indices \in ScoreQuizIndices :
          dailyQuizzes = << [id |-> 1, quizDate |-> Today, difficulty |-> "beginner",
                             questions |-> QuestionsOf(indices, 1), rewardXp |-> 25] >>
    /\ dailyQuizProgress = <<>>
    /\ req = [r \in Reqs |-> NoReq]
    /\ page = NoPage

NextScore ==
    \/ \E a \in ScoreSubmissions(Len(dailyQuizzes[1].questions)) : SubmitGetQuiz(1, 1, 1, Array(a))
    \/ \E r \in Reqs : SubmitGetProgress(r)
    \/ \E r \in Reqs : SubmitCompleteSelect(r)
    \/ \E r \in Reqs : SubmitCompleteWrite(r)
    \/ \E r \in Reqs : SubmitGetUser(r)
    \/ \E r \in Reqs : SubmitUpdateUser(r)

SpecScore == InitScore /\ [][NextScore]_vars

----------------------------------------------------------------------------
(* Properties of the quest claim.                                          *)

RECURSIVE SumOver(_, _)
SumOver(S, f) ==
    IF S = {} THEN 0
    ELSE LET x == CHOOSE y \in S : TRUE IN f[x] + SumOver(S \ {x}, f)

QuestIds == {Quests[i].id : i \in DOMAIN Quests}
QuestById(questId) == Quests[CHOOSE i \in DOMAIN Quests : Quests[i].id = questId]

UserQuestRows(userId, questId) ==
    {i \in DOMAIN userQuests :
        userQuests[i].userId = userId /\ userQuests[i].questId = questId}

\* The failure kinds of the claim operation, by the response the handler sends.
Failed(rq, status, message) ==
    rq.pc = "done" /\ rq.status = status /\ rq.body = Message(message)

NotFound(rq)       == Failed(rq, 404, "Quest not found")
InvalidState(rq)   == Failed(rq, 400, "Quest progress not found")
AlreadyClaimed(rq) == Failed(rq, 400, "Quest already claimed")
NotCompleted(rq)   == Failed(rq, 400, "Quest not completed yet")

Succeeded(rq) == rq.pc = "done" /\ rq.status = 200

ClaimsOf(userId, questId) ==
    {r \in Reqs : req[r].op = "claim" /\ req[r].userId = userId /\ req[r].id = questId}

\* C1: of the claim requests for one (user, quest), interleaved in any way,
\* exactly one succeeds: no two of them both return the claimed record, and
\* once one has succeeded every other finished one has failed.
C1_ExactlyOneClaimSucceeds ==
    \A u \in UserIds, q \in QuestIds :
        \A r1, r2 \in ClaimsOf(u, q) :
            (r1 # r2 /\ Succeeded(req[r1]) /\ req[r2].pc = "done") => ~Succeeded(req[r2])

\* C2: a quest's rewardXp is added to a user's XP at most once per
\* (user, quest): with claims the only source of XP, a user's XP never exceeds
\* the sum of the rewards of the quests that user has claimed.
C2_XpOncePerQuest ==
    \A u \in UserIds :
        users[u].xp <=
            SumOver({q \in QuestIds : \E i \in UserQuestRows(u, q) : userQuests[i].claimed},
                    [q \in QuestIds |-> QuestById(q).rewardXp])

\* C3: a claim of a quest that does not exist fails with NotFound, a claim
\* without a UserQuest row fails with InvalidState, a claim on an unclaimed row
\* with progress below the target fails with NotCompleted; a step that ends a
\* claim in a failure changes neither the UserQuest rows nor any user's XP.
C3_ClaimFailures ==
    [][\A r \in Reqs :
        LET arriving == req[r].pc = "idle" /\ req'[r].op = "claim"
            checking == req[r].pc = "claim:getUserQuests" /\ req'[r].pc # req[r].pc
            row      == SelectUserQuest(req[r].userId, req[r].id)
        IN  /\ (arriving /\ req'[r].id \notin QuestIds) => NotFound(req'[r])
            /\ (checking /\ row = Undefined) => InvalidState(req'[r])
            /\ (checking /\ row # Undefined /\ ~row.claimed
                    /\ row.progress < QuestById(req[r].id).targetCount)
                  => NotCompleted(req'[r])
            /\ (req[r].pc # "done" /\ req'[r].op = "claim" /\ req'[r].pc = "done"
                    /\ req'[r].status # 200)
                  => (userQuests' = userQuests /\ users' = users)
      ]_vars

\* Two claims have failed, one for want of a row and one for want of progress
\* (progress 3, target 7).
C3_Witness ==
    \E r1, r2 \in Reqs :
        /\ InvalidState(req[r1])
        /\ NotCompleted(req[r2])
        /\ \E i \in UserQuestRows(req[r2].userId, req[r2].id) : userQuests[i].progress = 3

\* C4: a successful claim leaves the row claimed and completed and returns it,
\* and each successful claim adds exactly the quest's rewardXp to the user's XP:
\* with requests one at a time, a user's XP is the sum of the rewards of that
\* user's successful claims.
C4_SuccessfulClaim ==
    /\ \A r \in Reqs :
          (req[r].op = "claim" /\ Succeeded(req[r])) =>
              /\ req[r].body # Undefined
              /\ req[r].body.claimed /\ req[r].body.completed
              /\ \A i \in UserQuestRows(req[r].userId, req[r].id) :
                    userQuests[i].claimed /\ userQuests[i].completed
    /\ \A u \in UserIds :
          users[u].xp =
              SumOver({r \in Reqs : req[r].op = "claim" /\ req[r].userId = u /\ Succeeded(req[r])},
                      [r \in Reqs |-> IF req[r].id \in QuestIds
                                       THEN QuestById(req[r].id).rewardXp ELSE 0])

\* A claim has succeeded on a row that had progress 7 of 7 and was unclaimed.
C4_Witness ==
    \E r \in Reqs :
        /\ req[r].op = "claim" /\ Succeeded(req[r])
        /\ req[r].body # Undefined /\ req[r].body.progress = 7
        /\ users[req[r].userId].xp = 500

----------------------------------------------------------------------------
(* Properties of the daily quiz.                                           *)

AlreadyCompleted(rq) == Failed(rq, 400, "Quiz already completed")

SubmitsOf(userId, quizId) ==
    {r \in Reqs : req[r].op = "submit" /\ req[r].userId = userId /\ req[r].id = quizId}

QuizIds == {dailyQuizzes[i].id : i \in DOMAIN dailyQuizzes}
QuizById(quizId) == dailyQuizzes[CHOOSE i \in DOMAIN dailyQuizzes : dailyQuizzes[i].id = quizId]

QuizProgressRows(userId, quizId) ==
    {i \in DOMAIN dailyQuizProgress :
        dailyQuizProgress[i].userId = userId /\ dailyQuizProgress[i].quizId = quizId}

\* C5: with requests one at a time, once a submission for a (user, quiz) has
\* succeeded, every step of a later submission for that pair leaves the progress
\* rows (score, answers) and every user's XP unchanged, and the submission ends
\* with AlreadyCompleted, whatever its answers.
C5_ResubmissionRejected ==
    [][\A r \in Reqs :
        (/\ req'[r] # req[r]
         /\ req'[r].op = "submit"
         /\ \E r1 \in SubmitsOf(req'[r].userId, req'[r].id) : Succeeded(req[r1]))
        => /\ users' = users
           /\ dailyQuizProgress' = dailyQuizProgress
           /\ req'[r].pc \in {"submit:getProgress", "done"}
           /\ req'[r].pc = "done" => AlreadyCompleted(req'[r])
      ]_vars

\* A submission with other answers, and one without answers, were rejected
\* after a successful one; the stored score is still that of the first.
C5_Witness ==
    \E r1, r2, r3 \in Reqs :
        /\ r1 < r2 /\ r2 < r3
        /\ {r1, r2, r3} \subseteq SubmitsOf(1, 1)
        /\ Succeeded(req[r1]) /\ req[r1].body.score = 60
        /\ AlreadyCompleted(req[r2]) /\ req[r2].userAnswers = Array(<<1, 1, 1, 2, 0>>)
        /\ AlreadyCompleted(req[r3]) /\ req[r3].userAnswers = Undefined
        /\ \A i \in QuizProgressRows(1, 1) : dailyQuizProgress[i].score = 60

\* C6: one quiz never yields two XP grants to the same user: with submissions
\* the only source of XP, a user's XP never exceeds the sum, over the quizzes
\* that user has completed, of the quiz's rewardXp plus the bonus of 10.
C6_OneGrantPerQuiz ==
    \A u \in UserIds :
        users[u].xp <=
            SumOver({z \in QuizIds : QuizProgressRows(u, z) # {}},
                    [z \in QuizIds |-> QuizById(z).rewardXp + 10])

\* C7: a DailyQuizProgress row whose completed flag is true is never written
\* again, and no second row is created for its (user, quiz).
C7_CompletedNeverRewritten ==
    [][\A i \in DOMAIN dailyQuizProgress :
        dailyQuizProgress[i].completed =>
            /\ dailyQuizProgress'[i] = dailyQuizProgress[i]
            /\ \A j \in DOMAIN dailyQuizProgress' :
                  (/\ dailyQuizProgress'[j].userId = dailyQuizProgress[i].userId
                   /\ dailyQuizProgress'[j].quizId = dailyQuizProgress[i].quizId) => j = i
      ]_vars

\* C9: when a fetch (of today's quiz or of a quiz by id) responds, the
\* questions it sends carry no correctIndex if the requesting user has no
\* completed progress row for the quiz, and carry the stored correctIndex if
\* that user has one; other users' rows do not matter.
C9_AnswerStripping ==
    [][\A r \in Reqs :
        (req[r].pc \in {"today:getProgress", "byId:getProgress"} /\ req'[r].pc = "done")
        => LET own    == \E i \in QuizProgressRows(req[r].userId, req[r].quiz.id) :
                            dailyQuizProgress[i].completed
               stored == QuizById(req[r].quiz.id).questions
               sent   == req'[r].body.quiz.questions
           IN  /\ req'[r].status = 200
               /\ req'[r].body.completed = own
               /\ Len(sent) = Len(stored)
               /\ \A i \in DOMAIN sent :
                     IF own
                     THEN sent[i] = stored[i]
                     ELSE /\ "correctIndex" \notin DOMAIN sent[i]
                          /\ sent[i].question = stored[i].question
      ]_vars

\* User 1 has completed quiz 1 and fetched it with the correct indices; user 2,
\* who has not, fetched the same quiz without them.
C9_Witness ==
    \E r1, r2 \in Reqs :
        /\ req[r1].op \in {"today", "byId"} /\ req[r1].userId = 1 /\ Succeeded(req[r1])
        /\ req[r1].body.completed
        /\ \A i \in DOMAIN req[r1].body.quiz.questions :
              "correctIndex" \in DOMAIN req[r1].body.quiz.questions[i]
        /\ req[r2].op \in {"today", "byId"} /\ req[r2].userId = 2 /\ Succeeded(req[r2])
        /\ req[r2].id = req[r1].id
        /\ ~req[r2].body.completed
        /\ \A i \in DOMAIN req[r2].body.quiz.questions :
              "correctIndex" \notin DOMAIN req[r2].body.quiz.questions[i]
        /\ QuizProgressRows(1, req[r1].id) # {}

\* round(100 * correct / n), halves rounded up, in exact integer arithmetic.
RoundedPercent(correct, n) == (200 * correct + n) \div (2 * n)

Matches(questions, answers) ==
    Cardinality({i \in DOMAIN questions : answers[i] = questions[i].correctIndex})

\* C8: the score of an accepted submission of length n >= 1 is
\* round(100 * correctCount / n), correctCount being the number of positions
\* where the answer equals the stored correctIndex (indices 1,0,2 and answers
\* 1,1,2 give 67).
C8_ScoreIsRoundedPercent ==
    \A r \in Reqs :
        (req[r].op = "submit" /\ Succeeded(req[r])) =>
            LET questions == QuizById(req[r].id).questions
            IN  req[r].body.score =
                    RoundedPercent(Matches(questions, req[r].userAnswers.array), Len(questions))

----------------------------------------------------------------------------
(* Properties of lesson completion.                                        *)

RECURSIVE MaxOf(_)
MaxOf(S) ==
    LET x == CHOOSE y \in S : TRUE
    IN  IF S = {x} THEN x ELSE Max(x, MaxOf(S \ {x}))

\* The completeLesson calls for a pair whose progress write has happened.
LessonCallsOf(userId, lessonId) ==
    {r \in Reqs : /\ req[r].op = "lesson" /\ req[r].userId = userId /\ req[r].id = lessonId
                   /\ req[r].pc # "lesson:write"}

\* C10: with completeLesson calls one at a time, after the calls made so far on
\* a (user, lesson) the stored score is the maximum of their scores, and the
\* row is completed from the first call on.
C10_BestScoreKept ==
    \A u \in UserIds, l \in LessonArgs :
        LessonCallsOf(u, l) # {} =>
            LET row == SelectLessonProgress(u, l)
            IN  /\ row # Undefined
                /\ row.completed
                /\ row.score = MaxOf({req[r].score : r \in LessonCallsOf(u, l)})

\* Three calls on one pair, the best score neither first nor last.
C10_Witness ==
    \E r1, r2, r3 \in Reqs :
        /\ r1 < r2 /\ r2 < r3
        /\ {r1, r2, r3} \subseteq LessonCallsOf(1, 1)
        /\ req[r1].score = 80 /\ req[r2].score = 81 /\ req[r3].score = 0
        /\ req[r3].pc = "done"
        /\ SelectLessonProgress(1, 1).score = 81

----------------------------------------------------------------------------
(* Properties of XP grants.                                                *)

\* The XP a completeLesson call earns: 10, and 5 more above a score of 80.
LessonGrant(score) == IF score <= 80 THEN 10 ELSE 15

LessonsDoneOf(userId) ==
    {r \in Reqs : req[r].op = "lesson" /\ req[r].userId = userId /\ req[r].pc = "done"}

\* C11: with completeLesson calls one at a time, every finished call has added
\* 10 XP (score <= 80) or 15 XP (score > 80) to its user, repeated completions
\* of a lesson included: the user's XP is the sum of the grants of the calls.
C11_LessonXpPerCall ==
    \A u \in UserIds :
        users[u].xp = SumOver(LessonsDoneOf(u), [r \in Reqs |-> LessonGrant(req[r].score)])

\* Lesson 1 completed three times by user 1, with scores 80, 81 and 80 again.
C11_Witness ==
    /\ 1..3 \subseteq LessonsDoneOf(1)
    /\ \A r \in 1..3 : req[r].id = 1
    /\ req[1].score = 80 /\ req[2].score = 81 /\ req[3].score = 80
    /\ users[1].xp = 35

\* The XP a successful submission earns: the quiz's reward, and 10 more from a
\* score of 80 on.
QuizGrant(quiz, score) == IF score < 80 THEN quiz.rewardXp ELSE quiz.rewardXp + 10

SubmitsDoneOf(userId) ==
    {r \in Reqs : req[r].op = "submit" /\ req[r].userId = userId /\ Succeeded(req[r])}

\* C12: with submissions one at a time, every successful submission has added
\* quiz.rewardXp (score < 80) or quiz.rewardXp + 10 (score >= 80) to its user,
\* and failed submissions nothing: the user's XP is the sum of those grants.
C12_QuizXpPerSubmission ==
    \A u \in UserIds :
        users[u].xp =
            SumOver(SubmitsDoneOf(u),
                    [r \in Reqs |-> QuizGrant(QuizById(req[r].id), req[r].body.score)])

\* User 1 scored exactly 80 on the beginner quiz (15 + 10), user 2 scored 60 (15).
C12_Witness ==
    \E r1, r2 \in Reqs :
        /\ r1 \in SubmitsDoneOf(1) /\ req[r1].body.score = 80
        /\ r2 \in SubmitsDoneOf(2) /\ req[r2].body.score = 60
        /\ users[1].xp = 25 /\ users[2].xp = 15

\* C13: a user's XP never decreases: every step, of any request in any
\* interleaving, leaves each user's XP at least what it was.
C13_XpNeverDecreases ==
    [][\A u \in UserIds : users'[u].xp >= users[u].xp]_vars

\* The XP a finished request has earned.
GrantOf(rq) ==
    IF ~Succeeded(rq) THEN 0
    ELSE IF rq.op = "lesson" THEN LessonGrant(rq.score)
    ELSE IF rq.op = "claim" THEN QuestById(rq.id).rewardXp
    ELSE IF rq.op = "submit" THEN QuizGrant(QuizById(rq.id), rq.body.score)
    ELSE 0

\* C14: with a user's operations one at a time, every step changes the user's
\* XP by exactly the grant of the operation that finishes in it (and by nothing
\* otherwise), so the XP is the initial 0 plus the sum of the grants so far.
C14_XpIsSumOfGrants ==
    [][\A u \in UserIds :
        users'[u].xp = users[u].xp +
            SumOver({r \in Reqs : req'[r].userId = u /\ req[r].pc # "done" /\ req'[r].pc = "done"},
                    [r \in Reqs |-> GrantOf(req'[r])])
      ]_vars

\* From XP 0: a lesson completed with score 90 (15), then quest 1 claimed (65).
C14_Witness ==
    \E r1, r2 \in Reqs :
        /\ r1 < r2
        /\ req[r1].op = "lesson" /\ req[r1].score = 90 /\ Succeeded(req[r1])
        /\ req[r2].op = "claim" /\ req[r2].id = 1 /\ Succeeded(req[r2])
        /\ \A r \in Reqs \ {r1, r2} : GrantOf(req[r]) = 0
        /\ users[1].xp = 65

----------------------------------------------------------------------------
(* Properties of UserQuest records.                                        *)

\* C15: every UserQuest record with claimed = true has completed = true, in
\* every state reached by interleaved updateUserQuest and claim requests.
C15_ClaimedImpliesCompleted ==
    \A i \in DOMAIN userQuests : userQuests[i].claimed => userQuests[i].completed

\* A record has been claimed.
C15_Witness ==
    \E i \in DOMAIN userQuests :
        /\ userQuests[i].claimed /\ userQuests[i].completed
        /\ \E r \in ClaimsOf(userQuests[i].userId, userQuests[i].questId) : Succeeded(req[r])

\* C16: after any sequence of updateUserQuest and claim operations, every
\* UserQuest record with completed = true has progress >= its quest's
\* targetCount.
C16_CompletedImpliesProgress ==
    \A i \in DOMAIN userQuests :
        (userQuests[i].completed /\ userQuests[i].questId \in QuestIds)
        => userQuests[i].progress >= QuestById(userQuests[i].questId).targetCount

\* C17: when updateUserQuest(user, quest, p) returns, the pair has a record,
\* its progress is p, and it has completed = true if p >= quest.targetCount.
C17_UpdateUserQuestCompletes ==
    [][\A r \in Reqs :
        (req[r].pc = "uq:write" /\ req'[r].pc = "done")
        => /\ \E i \in DOMAIN userQuests' :
                 userQuests'[i].userId = req[r].userId /\ userQuests'[i].questId = req[r].id
           /\ \A i \in DOMAIN userQuests' :
                 (userQuests'[i].userId = req[r].userId /\ userQuests'[i].questId = req[r].id)
                 => /\ userQuests'[i].progress = req[r].progress
                    /\ (req[r].id \in QuestIds /\ req[r].progress >= QuestById(req[r].id).targetCount)
                       => userQuests'[i].completed
      ]_vars

----------------------------------------------------------------------------
(* Properties of the submission checks.                                    *)

InvalidInput(rq) == Failed(rq, 400, "Invalid answers")

\* The answers of a submission fit the quiz: an array, one entry per question.
AnswersFit(userAnswers, quiz) ==
    IsArray(userAnswers) /\ Len(userAnswers.array) = Len(quiz.questions)

\* C18: a submission to an existing quiz whose answers are not an array, or
\* not as many as the quiz has questions, changes no DailyQuizProgress record
\* and no XP in any of its steps, and ends with a failure: InvalidInput when
\* the user has not completed the quiz (AlreadyCompleted is decided first).
C18_InvalidAnswersRejected ==
    [][\A r \in Reqs :
        (/\ req'[r] # req[r]
         /\ req'[r].op = "submit"
         /\ req'[r].id \in QuizIds
         /\ ~AnswersFit(req'[r].userAnswers, QuizById(req'[r].id)))
        => /\ users' = users
           /\ dailyQuizProgress' = dailyQuizProgress
           /\ req'[r].pc \in {"submit:getProgress", "done"}
           /\ req'[r].pc = "done" =>
                 IF \E i \in QuizProgressRows(req'[r].userId, req'[r].id) :
                        dailyQuizProgress[i].completed
                 THEN AlreadyCompleted(req'[r])
                 ELSE InvalidInput(req'[r])
      ]_vars

\* A too-short array and a missing answers field were both rejected as
\* InvalidInput, with no progress record and no XP for the user.
C18_Witness ==
    \E r1, r2 \in SubmitsOf(1, 1) :
        /\ InvalidInput(req[r1]) /\ req[r1].userAnswers = Array(<<1>>)
        /\ InvalidInput(req[r2]) /\ req[r2].userAnswers = Undefined
        /\ QuizProgressRows(1, 1) = {}
        /\ users[1].xp = 0

----------------------------------------------------------------------------
(* Properties of the tables' keys.                                         *)

LessonProgressRows(userId, lessonId) ==
    {i \in DOMAIN lessonProgress :
        lessonProgress[i].userId = userId /\ lessonProgress[i].lessonId = lessonId}

\* C19: there is at most one LessonProgress record per (user, lesson), also
\* when completeLesson requests for the pair interleave.
C19_OneLessonProgressPerPair ==
    \A u \in UserIds, l \in LessonArgs : Cardinality(LessonProgressRows(u, l)) <= 1

DailyQuizRows(date, difficulty) ==
    {i \in DOMAIN dailyQuizzes :
        dailyQuizzes[i].quizDate = date /\ dailyQuizzes[i].difficulty = difficulty}

SeedRunsDoneOn(date) ==
    {r \in Reqs : req[r].op = "seed" /\ req[r].today = date /\ req[r].pc = "done"}

\* C20: with seeding runs one at a time, no (quizDate, difficulty) ever has
\* two quizzes, and once a run on a date has finished, that date has exactly
\* one quiz for each of the four tiers, however many runs follow.
C20_OneQuizPerDateAndTier ==
    \A d \in SeedDates, k \in DOMAIN Difficulties :
        /\ Cardinality(DailyQuizRows(d, Difficulties[k])) <= 1
        /\ SeedRunsDoneOn(d) # {} => Cardinality(DailyQuizRows(d, Difficulties[k])) = 1

\* Two runs have finished on one date, a third on another: eight quizzes.
C20_Witness ==
    /\ Cardinality(SeedRunsDoneOn(Today)) >= 2
    /\ SeedRunsDoneOn("2026-01-16") # {}
    /\ Len(dailyQuizzes) = 2 * Len(Difficulties)

----------------------------------------------------------------------------
(* Properties of the order of the checks.                                  *)

\* The record the claim handler finds for the pair: the first in table order.
FoundUserQuest(userId, questId) ==
    LET rows == UserQuestRows(userId, questId)
    IN  IF rows = {} THEN Undefined
        ELSE userQuests[CHOOSE i \in rows : \A j \in rows : i <= j]

\* C21: the claim checks are decided in the order quest-exists, record-exists,
\* not-claimed, progress-sufficient: a claim of a nonexistent quest ends
\* NotFound whatever records exist; otherwise, on the record read, a missing
\* record gives InvalidState, a claimed one AlreadyClaimed whatever its
\* progress, an unclaimed one below the target NotCompleted.
C21_ClaimCheckOrder ==
    [][\A r \in Reqs :
        /\ (req[r].pc = "idle" /\ req'[r].op = "claim")
           => IF req'[r].id \notin QuestIds
              THEN NotFound(req'[r])
              ELSE req'[r].pc = "claim:getUserQuests"
        /\ (req[r].pc = "claim:getUserQuests" /\ req'[r] # req[r])
           => LET row == FoundUserQuest(req[r].userId, req[r].id)
              IN  IF row = Undefined THEN InvalidState(req'[r])
                  ELSE IF row.claimed THEN AlreadyClaimed(req'[r])
                  ELSE IF row.progress < QuestById(req[r].id).targetCount
                       THEN NotCompleted(req'[r])
                  ELSE req'[r].pc = "claim:claimQuest"
      ]_vars

\* A claimed record with progress 3 (target 7) was answered AlreadyClaimed, and
\* a claim of quest id 4 NotFound although a record with that quest id exists.
C21_Witness ==
    \E r1, r2 \in Reqs :
        /\ req[r1].id = 3 /\ AlreadyClaimed(req[r1])
        /\ FoundUserQuest(1, 3) # Undefined
        /\ FoundUserQuest(1, 3).claimed /\ FoundUserQuest(1, 3).progress = 3
        /\ req[r2].id = 4 /\ NotFound(req[r2])
        /\ UserQuestRows(1, 4) # {}

QuizNotFound(rq) == Failed(rq, 404, "Quiz not found")

\* C22: the submission checks are decided in the order quiz-exists,
\* not-already-completed, answers: a submission to a nonexistent quiz ends
\* NotFound whatever its answers; otherwise, on the progress read, a completed
\* record gives AlreadyCompleted whatever the answers, and only then answers
\* that do not fit the quiz give InvalidInput.
C22_SubmitCheckOrder ==
    [][\A r \in Reqs :
        /\ (req[r].pc = "idle" /\ req'[r].op = "submit")
           => IF req'[r].id \notin QuizIds
              THEN QuizNotFound(req'[r])
              ELSE req'[r].pc = "submit:getProgress"
        /\ (req[r].pc = "submit:getProgress" /\ req'[r] # req[r])
           => IF \E i \in QuizProgressRows(req[r].userId, req[r].id) :
                     dailyQuizProgress[i].completed
              THEN AlreadyCompleted(req'[r])
              ELSE IF ~AnswersFit(req[r].userAnswers, QuizById(req[r].id))
                   THEN InvalidInput(req'[r])
              ELSE req'[r].pc = "submit:complete:select"
      ]_vars

\* After a successful submission, a one-answer submission to the same quiz was
\* answered AlreadyCompleted, and a full submission to quiz id 9 NotFound.
C22_Witness ==
    \E r1, r2, r3 \in Reqs :
        /\ r1 < r2
        /\ {r1, r2} \subseteq SubmitsOf(1, 1)
        /\ Succeeded(req[r1])
        /\ req[r2].userAnswers = Array(<<1>>) /\ AlreadyCompleted(req[r2])
        /\ req[r3].op = "submit" /\ req[r3].id = 9
        /\ req[r3].userAnswers = Array(<<1, 1, 1, 2, 0>>) /\ QuizNotFound(req[r3])

\* The failure kinds, by the message of the response.
ConflictKinds == {Message("Quest already claimed"), Message("Quiz already completed")}
BadRequestKinds ==
    {Message("Quest progress not found"), Message("Quest not completed yet"),
     Message("Invalid answers")}

\* C23: the status of a failure tells its class: a failed request of a
\* conflict kind (AlreadyClaimed, AlreadyCompleted) never has the status of a
\* failed request of a bad-request kind (InvalidState, NotCompleted,
\* InvalidInput).
C23_StatusTellsFailureKind ==
    \A r1, r2 \in Reqs :
        (/\ req[r1].pc = "done" /\ req[r1].body \in ConflictKinds
         /\ req[r2].pc = "done" /\ req[r2].body \in BadRequestKinds)
        => req[r1].status # req[r2].status

----------------------------------------------------------------------------
(* Properties of interleaved lesson completions.                           *)

\* C24: when completeLesson requests for one (user, lesson) interleave, the
\* score stored for the pair is still the maximum of the scores submitted by
\* the calls that have written, and once all calls have finished the XP is
\* the sum of one grant per call.
C24_InterleavedLessonsKeepBest ==
    /\ \A l \in LessonArgs :
          LessonCallsOf(LessonUser, l) # {} =>
              SelectLessonProgress(LessonUser, l).score =
                  MaxOf({req[r].score : r \in LessonCallsOf(LessonUser, l)})
    /\ Quiescent =>
          users[LessonUser].xp =
              SumOver(LessonsDoneOf(LessonUser), [r \in Reqs |-> LessonGrant(req[r].score)])

----------------------------------------------------------------------------
(* Properties of quest progress.                                           *)

\* C25: the progress of a UserQuest record is monotonic: no step, of an
\* updateUserQuest call with any progress argument, stores a progress smaller
\* than the one stored before.
C25_ProgressMonotonic ==
    [][\A i \in DOMAIN userQuests : userQuests'[i].progress >= userQuests[i].progress]_vars

----------------------------------------------------------------------------
(* Properties of stored lesson answers.                                    *)

\* C26: with completeLesson calls one at a time, after a call on an existing
\* LessonProgress record the stored userAnswers are those of that latest call,
\* whether it carried answers or not.
C26_LatestAnswersStored ==
    \A u \in UserIds, l \in LessonArgs :
        Cardinality(LessonCallsOf(u, l)) >= 2 =>
            LET latest == CHOOSE r \in LessonCallsOf(u, l) :
                              \A r2 \in LessonCallsOf(u, l) : r2 <= r
            IN  SelectLessonProgress(u, l).userAnswers = req[latest].userAnswers

----------------------------------------------------------------------------
(* Properties of stored quiz scores.                                       *)

----------------------------------------------------------------------------
(* Properties of interleaved XP grants.                                    *)

\* C28: when XP-granting requests of one user interleave, no grant is lost:
\* once all requests have finished, the user's XP is the initial 0 plus the
\* sum of the grants of the requests that granted XP.
C28_NoGrantLost ==
    Quiescent =>
        users[XpUser].xp = SumOver(Reqs, [r \in Reqs |-> GrantOf(req[r])])

----------------------------------------------------------------------------
(* Properties of reward delivery.                                          *)

ClaimInFlight(userId, questId) ==
    \E r \in ClaimsOf(userId, questId) : req[r].pc \notin {"idle", "done", "thrown"}

\* C29: the reward of a claimed record is not lost: when a claim has been
\* answered AlreadyClaimed and no claim of the pair is still running, the
\* quest's rewardXp has been added to the user's XP, also when an earlier
\* claim handler stopped between the claimed write and the XP write.
C29_ClaimedRewardDelivered ==
    \A r \in Reqs :
        (/\ req[r].op = "claim" /\ AlreadyClaimed(req[r])
         /\ ~ClaimInFlight(req[r].userId, req[r].id))
        => users[req[r].userId].xp >= QuestById(req[r].id).rewardXp

----------------------------------------------------------------------------
(* Properties of the daily-quiz page.                                      *)

\* C30: every submission the daily-quiz page sends carries exactly one answer
\* per question of the quiz, also one sent by pressing Finish again after a
\* submission failed.
C30_OneAnswerPerQuestion ==
    \A k \in DOMAIN page.sent : Len(page.sent[k]) = Len(PageQuestions)

====
